---------------------------- MODULE Spec2Model ----------------------------
(***************************************************************************)
(* A model of the TikTok scraper API of src/main.py: the session factory   *)
(* get_api_instance and the three POST handlers scrape_user_videos,        *)
(* get_hashtag_trends and get_country_trends.                              *)
(*                                                                         *)
(* Each handler is a coroutine.  It runs without interruption between two  *)
(* awaits, so every action below is one such stretch of a handler: from    *)
(* the request's arrival to the first awaited fetch, from the return of a  *)
(* fetch to the next await, and so on.  The scraping engine (TikTokApi) is *)
(* the environment: what a fetch returns, and whether it raises, is chosen *)
(* by \E from bounded sets.  The request headers and cookies built by      *)
(* get_api_instance influence nothing the handlers compute and are left    *)
(* out of the options record; its proxy settings are kept.                 *)
(***************************************************************************)
EXTENDS Integers, Sequences, FiniteSets, TLC

\* ------------------------------------------------------------------ bounds
NumRequests == 2        \* requests in flight at the same time
MaxVideos == 3          \* longest list a fetch returns
MaxDays == 1            \* largest days of a request
MaxHashtagLen == 2      \* longest hashtag of a request, in characters
ClockNow == 1698584400  \* what the wall clock reads (epoch seconds): 2023-10-29 13:00:00 UTC

\* ------------------------------------------------------- program constants
SecondsPerDay == 86400  \* timedelta(days = 1)
DefaultCount == 10      \* count: int = 10

Reqs == 1 .. NumRequests

\* Optional[...] values: None is the empty sequence, a value v is <<v>>.
None == << >>
Some(v) == << v >>

\* -------------------------------------------------------------- local time
\* The process's time zone decides datetime.now() and datetime.fromtimestamp():
\* both return naive local wall-clock times.  "UTC" has no offset;
\* "Europe/Belgrade" switched from UTC+2 to UTC+1 on 2023-10-29 01:00:00 UTC,
\* twelve hours before ClockNow.
TimeZones == {"UTC", "Europe/Belgrade"}
DstEnd == ClockNow - 43200

utcoffset(zone, t) ==
    IF zone = "UTC" THEN 0
    ELSE IF t < DstEnd THEN 7200 ELSE 3600

\* datetime.fromtimestamp(t): a naive local datetime, held as the seconds its
\* wall-clock reading lies after 1970-01-01T00:00:00.
fromtimestamp(zone, t) == t + utcoffset(zone, t)

\* datetime.now(): the naive local reading of the clock.
datetime_now(zone) == fromtimestamp(zone, ClockNow)

\* datetime - timedelta(days = d): wall-clock arithmetic on naive datetimes.
minus_timedelta(dt, d) == dt - d * SecondsPerDay

\* datetime.isoformat(): the fields of "YYYY-MM-DDTHH:MM:SS" of a naive
\* datetime (proleptic Gregorian calendar, dt >= 0).
isoformat(dt) ==
    LET days == dt \div 86400
        secs == dt % 86400
        z    == days + 719468
        era  == z \div 146097
        doe  == z - era * 146097
        yoe  == (doe - (doe \div 1460) + (doe \div 36524) - (doe \div 146096)) \div 365
        doy  == doe - (365 * yoe + (yoe \div 4) - (yoe \div 100))
        mp   == (5 * doy + 2) \div 153
        d    == doy - ((153 * mp + 2) \div 5) + 1
        m    == IF mp < 10 THEN mp + 3 ELSE mp - 9
        y    == yoe + era * 400 + (IF m <= 2 THEN 1 ELSE 0)
    IN  [year |-> y, month |-> m, day |-> d,
         hour |-> secs \div 3600, minute |-> (secs % 3600) \div 60, second |-> secs % 60]

\* ------------------------------------------------------------------ strings
\* A hashtag is a sequence of characters.
Chars == {"#", "a"}

RECURSIVE lstrip(_, _)
lstrip(s, c) == IF s # << >> /\ Head(s) = c THEN lstrip(Tail(s), c) ELSE s

RECURSIVE rstrip(_, _)
rstrip(s, c) ==
    IF s # << >> /\ s[Len(s)] = c THEN rstrip(SubSeq(s, 1, Len(s) - 1), c) ELSE s

\* str.strip(c): every leading and every trailing c removed.
strip(s, c) == rstrip(lstrip(s, c), c)


\* ------------------------------------------------- what the engine returns
\* A raw video record of the engine.  An incomplete record lacks its stats
\* attribute (an upstream schema change).
RawVideo(i, t, complete) ==
    LET full == [id          |-> i,
                 desc        |-> "desc",
                 create_time |-> t,
                 author      |-> [username |-> "author", nickname |-> "nick"],
                 stats       |-> [play_count |-> 1, digg_count |-> 2,
                                  comment_count |-> 3, share_count |-> 4],
                 challenges  |-> << [name |-> "tag"] >>,
                 video       |-> [download_addr |-> "url"]]
    IN  IF complete THEN full
        ELSE [k \in DOMAIN full \ {"stats"} |-> full[k]]

\* Creation timestamps at and one second before the thresholds of days = 0 and
\* of days = MaxDays.
TimeStamps ==
    UNION { {ClockNow - d * SecondsPerDay - 1, ClockNow - d * SecondsPerDay} :
            d \in {0, MaxDays} }

\* The lists of at most n records a fetch may return; the i-th record has id i
\* and, when incomplete is allowed, the first or the last record of a list may
\* be incomplete.
Feeds(n, stamps, incomplete) ==
    UNION { { [i \in 1 .. k |-> RawVideo(i, f[i], i # bad)] :
              f \in [1 .. k -> stamps], bad \in (IF incomplete THEN {0, 1, k} ELSE {0}) } :
            k \in 0 .. n }

\* A raw user record of the engine, complete or lacking an attribute.
RawUser(lacking) ==
    LET full == [username |-> "user",
                 nickname |-> "nick",
                 stats    |-> [follower_count |-> 1, following_count |-> 2,
                               likes_count |-> 3]]
    IN  [k \in DOMAIN full \ lacking |-> full[k]]

RECURSIVE StringsOfLen(_)
StringsOfLen(n) ==
    IF n = 0 THEN { << >> }
    ELSE { Append(s, c) : s \in StringsOfLen(n - 1), c \in Chars }

Strings(n) == UNION { StringsOfLen(k) : k \in 0 .. n }

\* The inputs of a specification: request fields and engine answers.
\* errors are the messages str(e) of the exceptions a fetch may raise; an
\* exception built without arguments (asyncio.TimeoutError()) has the message "".
AllInputs ==
    [proxies  |-> BOOLEAN \X {None, Some(""), Some("http://proxy:8080")},
     hashtags |-> Strings(MaxHashtagLen),
     days     |-> 0 .. MaxDays,
     feeds    |-> Feeds(MaxVideos, TimeStamps, TRUE),
     users    |-> {RawUser({}), RawUser({"username"}), RawUser({"stats"})},
     errors   |-> {"", "upstream error"}]

\* Fewer inputs, for the runs with several requests in flight.
FewInputs ==
    [proxies  |-> {<<TRUE, Some("http://proxy:8080")>>},
     hashtags |-> {<<"#", "a">>},
     days     |-> {MaxDays},
     feeds    |-> Feeds(1, {ClockNow - MaxDays * SecondsPerDay - 1, ClockNow}, FALSE),
     users    |-> {RawUser({})},
     errors   |-> {"upstream error"}]

\* ------------------------------------------------------------------- state
VARIABLES
    tz,             \* the process's time zone
    pc,             \* pc[r]: the await request r's handler is suspended at
    handler,        \* handler[r]: the handler serving request r
    request,        \* request[r]: the parsed request body
    api,            \* api[r]: the handler's local api, an index of sessions (0: unbound)
    hashtag,        \* hashtag[r]: the local hashtag of get_hashtag_trends
    date_threshold, \* date_threshold[r]: the local date_threshold
    user,           \* user[r]: the local user of scrape_user_videos
    fetched,        \* fetched[r]: user_videos / hashtag_videos / trending_videos
    videos,         \* videos[r]: the local list videos
    e,              \* e[r]: the message of the exception caught by the except clause
    response,       \* response[r]: what the handler answered
    sessions        \* the TikTokApi instances constructed so far

vars == <<tz, pc, handler, request, api, hashtag, date_threshold, user, fetched,
          videos, e, response, sessions>>

Init ==
    /\ tz \in TimeZones
    /\ pc = [r \in Reqs |-> "idle"]
    /\ handler = [r \in Reqs |-> "none"]
    /\ request = [r \in Reqs |-> None]
    /\ api = [r \in Reqs |-> 0]
    /\ hashtag = [r \in Reqs |-> None]
    /\ date_threshold = [r \in Reqs |-> None]
    /\ user = [r \in Reqs |-> None]
    /\ fetched = [r \in Reqs |-> None]
    /\ videos = [r \in Reqs |-> None]
    /\ e = [r \in Reqs |-> None]
    /\ response = [r \in Reqs |-> None]
    /\ sessions = << >>

\* ------------------------------------------------------------ the session
\* Python truthiness of an Optional[str]: None and "" are false.
truthy(proxy) == proxy # None /\ proxy[1] # ""

\* get_api_instance with `if proxy:` for `if use_proxy and proxy:`.
get_api_instance_ignoring_use_proxy(use_proxy, proxy) ==
    IF truthy(proxy)
    THEN [use_test_endpoints |-> FALSE,
          proxies |-> [http |-> proxy[1], https |-> proxy[1]]]
    ELSE [use_test_endpoints |-> FALSE]

\* get_api_instance: the options the TikTokApi instance is constructed with.
\* The key proxies is set only under `if use_proxy and proxy`.
get_api_instance(use_proxy, proxy) ==
    IF use_proxy /\ truthy(proxy)
    THEN [use_test_endpoints |-> FALSE,
          proxies |-> [http |-> proxy[1], https |-> proxy[1]]]
    ELSE [use_test_endpoints |-> FALSE]

\* A TikTokApi instance constructed by request r: its options and the calls
\* made on it so far (fetches and close), each with the request that made it.
TikTokApi(options, r) == [options |-> options, constructed_by |-> r, calls |-> << >>]

\* The sessions after request r makes call op(arg) on the instance its local api names.
Call(ss, sid, op, arg, r) ==
    [ss EXCEPT ![sid].calls = Append(@, [op |-> op, arg |-> arg, by |-> r])]

\* The handler's `api = get_api_instance(request.use_proxy, request.proxy)`
\* followed by its first call on api: the sessions afterwards.
Acquire(r, req, op, arg) ==
    Call(Append(sessions, TikTokApi(get_api_instance(req.use_proxy, req.proxy), r)),
         Len(sessions) + 1, op, arg, r)

closed(s) == \E i \in 1 .. Len(s.calls) : s.calls[i].op = "close"

\* The except clause of a handler: raise HTTPException(status_code=500, detail=str(e)).
HTTPException(r, msg) ==
    /\ e' = [e EXCEPT ![r] = Some(msg)]
    /\ response' = [response EXCEPT ![r] = Some([status_code |-> 500, detail |-> msg])]
    /\ pc' = [pc EXCEPT ![r] = "done"]

\* The message of the AttributeError of a missing attribute.
AttributeError(attr) == "object has no attribute " \o attr

\* The first of attrs, in order, that obj lacks (None when it has them all).
RECURSIVE FirstMissing(_, _)
FirstMissing(obj, attrs) ==
    IF attrs = << >> THEN None
    ELSE IF Head(attrs) \notin DOMAIN obj THEN Some(Head(attrs))
    ELSE FirstMissing(obj, Tail(attrs))

\* ------------------------------------------------------ scrape_user_videos
\* The attributes the video_data dict of scrape_user_videos reads, in order.
UserVideoAttrs == <<"id", "desc", "create_time", "author", "stats", "video">>

\* video_data of scrape_user_videos with the hashtags entry of the trend handlers.
user_video_data_with_hashtags(video) ==
    [id          |-> video.id,
     desc        |-> video.desc,
     create_time |-> video.create_time,
     author      |-> [username |-> video.author.username,
                      nickname |-> video.author.nickname],
     stats       |-> [play_count    |-> video.stats.play_count,
                      digg_count    |-> video.stats.digg_count,
                      comment_count |-> video.stats.comment_count,
                      share_count   |-> video.stats.share_count],
     hashtags    |-> [i \in 1 .. Len(video.challenges) |-> video.challenges[i].name],
     video_url   |-> video.video.download_addr]

\* video_data of scrape_user_videos.
user_video_data(video) ==
    [id          |-> video.id,
     desc        |-> video.desc,
     create_time |-> video.create_time,
     author      |-> [username |-> video.author.username,
                      nickname |-> video.author.nickname],
     stats       |-> [play_count    |-> video.stats.play_count,
                      digg_count    |-> video.stats.digg_count,
                      comment_count |-> video.stats.comment_count,
                      share_count   |-> video.stats.share_count],
     video_url   |-> video.video.download_addr]

\* The loop of scrape_user_videos with the age check of the trend handlers
\* (threshold MaxDays days before now, in UTC).
RECURSIVE user_loop_skipping_old(_, _)
user_loop_skipping_old(todo, acc) ==
    IF todo = << >> THEN [videos |-> acc, raised |-> None]
    ELSE LET video   == Head(todo)
             missing == FirstMissing(video, <<"id", "desc", "create_time", "author",
                                              "stats", "video">>)
         IN  IF video.create_time < ClockNow - MaxDays * SecondsPerDay
             THEN user_loop_skipping_old(Tail(todo), acc)
             ELSE IF missing # None
             THEN [videos |-> acc, raised |-> Some(AttributeError(missing[1]))]
             ELSE user_loop_skipping_old(Tail(todo), Append(acc, user_video_data(video)))

\* `for video in user_videos`: the list videos when the loop ends, and the
\* message of the error that ended it early (None when it ran to the end).
RECURSIVE user_loop(_, _)
user_loop(todo, acc) ==
    IF todo = << >> THEN [videos |-> acc, raised |-> None]
    ELSE LET video   == Head(todo)
             missing == FirstMissing(video, UserVideoAttrs)
         IN  IF missing # None
             THEN [videos |-> acc, raised |-> Some(AttributeError(missing[1]))]
             ELSE user_loop(Tail(todo), Append(acc, user_video_data(video)))

\* A request arrives: the handler builds its session and awaits the user info.
scrape_user_videos_start(r, In) ==
    /\ pc[r] = "idle"
    /\ \E p \in In.proxies :
         LET req == [username |-> "user", count |-> DefaultCount,
                     use_proxy |-> p[1], proxy |-> p[2]]
         IN  /\ request' = [request EXCEPT ![r] = Some(req)]
             /\ sessions' = Acquire(r, req, "user.info", req.username)
    /\ api' = [api EXCEPT ![r] = Len(sessions) + 1]
    /\ handler' = [handler EXCEPT ![r] = "scrape_user_videos"]
    /\ pc' = [pc EXCEPT ![r] = "user.info"]
    /\ UNCHANGED <<tz, hashtag, date_threshold, user, fetched, videos, e, response>>

\* The user info arrives: the handler logs user.username and awaits the videos.
scrape_user_videos_info(r, In) ==
    /\ pc[r] = "user.info"
    /\ \E u \in In.users :
         /\ user' = [user EXCEPT ![r] = Some(u)]
         /\ IF "username" \notin DOMAIN u
            THEN /\ HTTPException(r, AttributeError("username"))
                 /\ UNCHANGED <<videos, sessions>>
            ELSE /\ videos' = [videos EXCEPT ![r] = Some(<< >>)]
                 /\ sessions' = Call(sessions, api[r], "user.videos",
                                     request[r][1].username, r)
                 /\ pc' = [pc EXCEPT ![r] = "user.videos"]
                 /\ UNCHANGED <<e, response>>
    /\ UNCHANGED <<tz, handler, request, api, hashtag, date_threshold, fetched>>

\* The videos arrive: the handler maps them and awaits api.close().
scrape_user_videos_videos(r, In) ==
    /\ pc[r] = "user.videos"
    /\ \E feed \in In.feeds :
         LET done == user_loop(feed, << >>)
         IN  /\ fetched' = [fetched EXCEPT ![r] = Some(feed)]
             /\ videos' = [videos EXCEPT ![r] = Some(done.videos)]
             /\ IF done.raised # None
                THEN /\ HTTPException(r, done.raised[1])
                     /\ UNCHANGED sessions
                ELSE /\ sessions' = Call(sessions, api[r], "close", "", r)
                     /\ pc' = [pc EXCEPT ![r] = "close"]
                     /\ UNCHANGED <<e, response>>
    /\ UNCHANGED <<tz, handler, request, api, hashtag, date_threshold, user>>

\* api.close() returns: the handler builds user_info and returns.
scrape_user_videos_return(r) ==
    /\ pc[r] = "close"
    /\ handler[r] = "scrape_user_videos"
    /\ LET u == user[r][1]
       IN  IF "stats" \notin DOMAIN u
           THEN HTTPException(r, AttributeError("stats"))
           ELSE /\ response' = [response EXCEPT ![r] = Some(
                     [status_code |-> 200,
                      user_info   |-> [username        |-> u.username,
                                       nickname        |-> u.nickname,
                                       follower_count  |-> u.stats.follower_count,
                                       following_count |-> u.stats.following_count,
                                       likes_count     |-> u.stats.likes_count],
                      videos      |-> videos[r][1]])]
                /\ pc' = [pc EXCEPT ![r] = "done"]
                /\ UNCHANGED e
    /\ UNCHANGED <<tz, handler, request, api, hashtag, date_threshold, user, fetched,
                   videos, sessions>>

\* An except clause that calls the failed fetch once more instead of answering.
scrape_user_videos_except_retry(r, In) ==
    /\ pc[r] \in {"user.info", "user.videos"}
    /\ Len(sessions[api[r]].calls) < 3
    /\ \E msg \in In.errors :
         sessions' = Call(sessions, api[r], pc[r], request[r][1].username, r)
    /\ UNCHANGED <<tz, pc, handler, request, api, hashtag, date_threshold, user, fetched,
                   videos, e, response>>

\* An awaited fetch raises: the except clause answers.
scrape_user_videos_except(r, In) ==
    /\ pc[r] \in {"user.info", "user.videos"}
    /\ \E msg \in In.errors : HTTPException(r, msg)
    /\ UNCHANGED <<tz, handler, request, api, hashtag, date_threshold, user, fetched,
                   videos, sessions>>

\* ------------------------------------- get_hashtag_trends, get_country_trends
\* The attributes the video_data dict of the two trend handlers reads, in order.
TrendVideoAttrs == <<"id", "desc", "create_time", "author", "stats", "challenges", "video">>

\* video_data of get_hashtag_trends and of get_country_trends.
trend_video_data(video, video_date) ==
    [id          |-> video.id,
     desc        |-> video.desc,
     create_time |-> video.create_time,
     create_date |-> isoformat(video_date),
     author      |-> [username |-> video.author.username,
                      nickname |-> video.author.nickname],
     stats       |-> [play_count    |-> video.stats.play_count,
                      digg_count    |-> video.stats.digg_count,
                      comment_count |-> video.stats.comment_count,
                      share_count   |-> video.stats.share_count],
     hashtags    |-> [i \in 1 .. Len(video.challenges) |-> video.challenges[i].name],
     video_url   |-> video.video.download_addr]

\* `if video_date < date_threshold: continue`: whether the loop skips the video.
skipped(video_date, threshold) == video_date < threshold

\* The loop of the trend handlers with videos.insert(0, video_data) for
\* videos.append(video_data).
RECURSIVE trend_loop_prepending(_, _, _, _)
trend_loop_prepending(todo, acc, threshold, zone) ==
    IF todo = << >> THEN [videos |-> acc, raised |-> None]
    ELSE LET video == Head(todo)
         IN  IF "create_time" \notin DOMAIN video
             THEN [videos |-> acc, raised |-> Some(AttributeError("create_time"))]
             ELSE LET video_date == fromtimestamp(zone, video.create_time)
                      missing    == FirstMissing(video, <<"id", "desc", "create_time",
                                                          "author", "stats", "challenges",
                                                          "video">>)
                  IN  IF skipped(video_date, threshold)
                      THEN trend_loop_prepending(Tail(todo), acc, threshold, zone)
                      ELSE IF missing # None
                      THEN [videos |-> acc,
                            raised |-> Some(AttributeError(missing[1]))]
                      ELSE trend_loop_prepending(
                               Tail(todo),
                               <<trend_video_data(video, video_date)>> \o acc,
                               threshold, zone)

\* `for video in hashtag_videos` (and `for video in trending_videos`): the list
\* videos when the loop ends, and the message of the error that ended it early.
RECURSIVE trend_loop(_, _, _, _)
trend_loop(todo, acc, threshold, zone) ==
    IF todo = << >> THEN [videos |-> acc, raised |-> None]
    ELSE LET video == Head(todo)
         IN  IF "create_time" \notin DOMAIN video
             THEN [videos |-> acc, raised |-> Some(AttributeError("create_time"))]
             ELSE LET video_date == fromtimestamp(zone, video.create_time)
                      missing    == FirstMissing(video, TrendVideoAttrs)
                  IN  IF skipped(video_date, threshold)
                      THEN trend_loop(Tail(todo), acc, threshold, zone)
                      ELSE IF missing # None
                      THEN [videos |-> acc,
                            raised |-> Some(AttributeError(missing[1]))]
                      ELSE trend_loop(Tail(todo),
                                      Append(acc, trend_video_data(video, video_date)),
                                      threshold, zone)

\* A request arrives: the handler builds its session, strips the hashtag,
\* computes the threshold and awaits the hashtag's videos.
get_hashtag_trends_start(r, In) ==
    /\ pc[r] = "idle"
    /\ \E p \in In.proxies, h \in In.hashtags, d \in In.days :
         LET req  == [hashtag |-> h, count |-> DefaultCount, days |-> d,
                      use_proxy |-> p[1], proxy |-> p[2]]
             name == strip(req.hashtag, "#")
         IN  /\ request' = [request EXCEPT ![r] = Some(req)]
             /\ hashtag' = [hashtag EXCEPT ![r] = Some(name)]
             /\ date_threshold' = [date_threshold EXCEPT ![r] =
                                      Some(minus_timedelta(datetime_now(tz), req.days))]
             /\ sessions' = Acquire(r, req, "hashtag.videos", name)
    /\ api' = [api EXCEPT ![r] = Len(sessions) + 1]
    /\ videos' = [videos EXCEPT ![r] = Some(<< >>)]
    /\ handler' = [handler EXCEPT ![r] = "get_hashtag_trends"]
    /\ pc' = [pc EXCEPT ![r] = "hashtag.videos"]
    /\ UNCHANGED <<tz, user, fetched, e, response>>

\* get_country_trends keeping one module-level session: a request arriving when
\* a session exists uses that session instead of building its own.
get_country_trends_start_sharing(r, In) ==
    /\ pc[r] = "idle"
    /\ \E p \in In.proxies, d \in In.days :
         LET req == [country_code |-> "US", count |-> DefaultCount, days |-> d,
                     use_proxy |-> p[1], proxy |-> p[2]]
         IN  /\ request' = [request EXCEPT ![r] = Some(req)]
             /\ date_threshold' = [date_threshold EXCEPT ![r] =
                                      Some(minus_timedelta(datetime_now(tz), req.days))]
             /\ IF sessions = << >>
                THEN /\ sessions' = Acquire(r, req, "trending.videos", req.country_code)
                     /\ api' = [api EXCEPT ![r] = 1]
                ELSE /\ sessions' = Call(sessions, 1, "trending.videos",
                                         req.country_code, r)
                     /\ api' = [api EXCEPT ![r] = 1]
    /\ videos' = [videos EXCEPT ![r] = Some(<< >>)]
    /\ handler' = [handler EXCEPT ![r] = "get_country_trends"]
    /\ pc' = [pc EXCEPT ![r] = "trending.videos"]
    /\ UNCHANGED <<tz, hashtag, user, fetched, e, response>>

\* A request arrives: the handler builds its session, computes the threshold
\* and awaits the trending videos.
get_country_trends_start(r, In) ==
    /\ pc[r] = "idle"
    /\ \E p \in In.proxies, d \in In.days :
         LET req == [country_code |-> "US", count |-> DefaultCount, days |-> d,
                     use_proxy |-> p[1], proxy |-> p[2]]
         IN  /\ request' = [request EXCEPT ![r] = Some(req)]
             /\ date_threshold' = [date_threshold EXCEPT ![r] =
                                      Some(minus_timedelta(datetime_now(tz), req.days))]
             /\ sessions' = Acquire(r, req, "trending.videos", req.country_code)
    /\ api' = [api EXCEPT ![r] = Len(sessions) + 1]
    /\ videos' = [videos EXCEPT ![r] = Some(<< >>)]
    /\ handler' = [handler EXCEPT ![r] = "get_country_trends"]
    /\ pc' = [pc EXCEPT ![r] = "trending.videos"]
    /\ UNCHANGED <<tz, hashtag, user, fetched, e, response>>

\* The videos arrive: the handler filters and maps them and awaits api.close().
TrendVideos(r, In) ==
    /\ \E feed \in In.feeds :
         LET done == trend_loop(feed, videos[r][1], date_threshold[r][1], tz)
         IN  /\ fetched' = [fetched EXCEPT ![r] = Some(feed)]
             /\ videos' = [videos EXCEPT ![r] = Some(done.videos)]
             /\ IF done.raised # None
                THEN /\ HTTPException(r, done.raised[1])
                     /\ UNCHANGED sessions
                ELSE /\ sessions' = Call(sessions, api[r], "close", "", r)
                     /\ pc' = [pc EXCEPT ![r] = "close"]
                     /\ UNCHANGED <<e, response>>
    /\ UNCHANGED <<tz, handler, request, api, hashtag, date_threshold, user>>

get_hashtag_trends_videos(r, In) ==
    /\ pc[r] = "hashtag.videos"
    /\ TrendVideos(r, In)

get_country_trends_videos(r, In) ==
    /\ pc[r] = "trending.videos"
    /\ TrendVideos(r, In)

\* api.close() returns: the handler returns its result.
get_hashtag_trends_return(r) ==
    /\ pc[r] = "close"
    /\ handler[r] = "get_hashtag_trends"
    /\ response' = [response EXCEPT ![r] = Some(
          [status_code |-> 200,
           hashtag     |-> hashtag[r][1],
           days_filter |-> request[r][1].days,
           videos      |-> videos[r][1]])]
    /\ pc' = [pc EXCEPT ![r] = "done"]
    /\ UNCHANGED <<tz, handler, request, api, hashtag, date_threshold, user, fetched,
                   videos, e, sessions>>

get_country_trends_return(r) ==
    /\ pc[r] = "close"
    /\ handler[r] = "get_country_trends"
    /\ response' = [response EXCEPT ![r] = Some(
          [status_code  |-> 200,
           country_code |-> request[r][1].country_code,
           days_filter  |-> request[r][1].days,
           videos       |-> videos[r][1]])]
    /\ pc' = [pc EXCEPT ![r] = "done"]
    /\ UNCHANGED <<tz, handler, request, api, hashtag, date_threshold, user, fetched,
                   videos, e, sessions>>

\* The awaited fetch raises: the except clause answers.
get_hashtag_trends_except(r, In) ==
    /\ pc[r] = "hashtag.videos"
    /\ \E msg \in In.errors : HTTPException(r, msg)
    /\ UNCHANGED <<tz, handler, request, api, hashtag, date_threshold, user, fetched,
                   videos, sessions>>

get_country_trends_except(r, In) ==
    /\ pc[r] = "trending.videos"
    /\ \E msg \in In.errors : HTTPException(r, msg)
    /\ UNCHANGED <<tz, handler, request, api, hashtag, date_threshold, user, fetched,
                   videos, sessions>>

\* --------------------------------------------------------- specifications
Step(r, In) ==
    \/ scrape_user_videos_start(r, In)
    \/ scrape_user_videos_info(r, In)
    \/ scrape_user_videos_videos(r, In)
    \/ scrape_user_videos_return(r)
    \/ scrape_user_videos_except(r, In)
    \/ get_hashtag_trends_start(r, In)
    \/ get_hashtag_trends_videos(r, In)
    \/ get_hashtag_trends_return(r)
    \/ get_hashtag_trends_except(r, In)
    \/ get_country_trends_start(r, In)
    \/ get_country_trends_videos(r, In)
    \/ get_country_trends_return(r)
    \/ get_country_trends_except(r, In)

\* One request, every input.
Next == Step(1, AllInputs)

Spec == Init /\ [][Next]_vars

\* NumRequests requests handled concurrently, fewer inputs.
NextConcurrent == \E r \in Reqs : Step(r, FewInputs)

SpecConcurrent == Init /\ [][NextConcurrent]_vars

\* ------------------------------------------------------------ properties
TrendHandlers == {"get_hashtag_trends", "get_country_trends"}

Done(r) == pc[r] = "done"

Succeeded(r) == Done(r) /\ response[r][1].status_code = 200

Failed(r) == Done(r) /\ response[r][1].status_code = 500

\* The calls request r made on any session, by operation.
CallsBy(r, ops) ==
    UNION { { <<sid, i>> : i \in { k \in 1 .. Len(sessions[sid].calls) :
                                     /\ sessions[sid].calls[k].by = r
                                     /\ sessions[sid].calls[k].op \in ops } } :
            sid \in 1 .. Len(sessions) }

FetchOps == {"user.info", "user.videos", "hashtag.videos", "trending.videos"}

\* C1: once a handler has acquired a session, that session is closed before
\* the handler responds, on every exit path (the HTTP 500 paths included).
C1_SessionClosedBeforeResponse ==
    \A r \in Reqs : (Done(r) /\ api[r] # 0) => closed(sessions[api[r]])

\* C2: when a fetch or the mapping of a record raised, the response is HTTP 500
\* with a non-empty detail carrying the error's message, and holds no videos.
C2_ErrorIs500WithNonEmptyDetail ==
    \A r \in Reqs :
        e[r] # None =>
            /\ response[r] # None
            /\ response[r][1].status_code = 500
            /\ response[r][1].detail = e[r][1]
            /\ response[r][1].detail # ""
            /\ "videos" \notin DOMAIN response[r][1]

\* C3: in the two trend handlers a fetched record with creation timestamp t is
\* in the response's videos iff t >= now - days * 86400 (epoch seconds).
C3_KeptIffNotOlderThanThreshold ==
    \A r \in Reqs :
        (handler[r] \in TrendHandlers /\ Succeeded(r)) =>
            LET feed == fetched[r][1]
                out  == response[r][1].videos
                days == request[r][1].days
            IN  \A i \in 1 .. Len(feed) :
                    (\E j \in 1 .. Len(out) : out[j].id = feed[i].id)
                        <=> (feed[i].create_time >= ClockNow - days * 86400)

\* The records of feed that appear (by id) in the output out, in feed order.
Kept(feed, out) ==
    SelectSeq(feed, LAMBDA v : \E j \in 1 .. Len(out) : out[j].id = v.id)

\* The position in feed of the record with the given id.
PositionOf(feed, id) == CHOOSE k \in 1 .. Len(feed) : feed[k].id = id

\* C4: the recency filter of the two trend handlers is stable and idempotent:
\* the kept records are in the fetched order, none twice, and filtering the kept
\* records again with the same threshold returns the same list.
C4_FilterStableIdempotent ==
    \A r \in Reqs :
        (handler[r] \in TrendHandlers /\ Succeeded(r)) =>
            LET feed == fetched[r][1]
                out  == response[r][1].videos
            IN  /\ \A j \in 1 .. Len(out) : \E k \in 1 .. Len(feed) : feed[k].id = out[j].id
                /\ \A i, j \in 1 .. Len(out) :
                       i < j => PositionOf(feed, out[i].id) < PositionOf(feed, out[j].id)
                /\ trend_loop(Kept(feed, out), << >>, date_threshold[r][1], tz).videos = out

C4_Witness ==
    \E r \in Reqs :
        /\ handler[r] \in TrendHandlers
        /\ Succeeded(r)
        /\ Len(response[r][1].videos) = 2
        /\ Len(fetched[r][1]) = 3
        /\ response[r][1].videos[1].id = 1
        /\ response[r][1].videos[2].id = 3

\* C5: a successful POST /scrape/user answers with one entry for every fetched
\* record, in the fetched order, whatever the records' creation timestamps.
C5_UserVideosNotFiltered ==
    \A r \in Reqs :
        (handler[r] = "scrape_user_videos" /\ Succeeded(r)) =>
            LET feed == fetched[r][1]
                out  == response[r][1].videos
            IN  /\ Len(out) = Len(feed)
                /\ \A i \in 1 .. Len(feed) :
                       /\ out[i].id = feed[i].id
                       /\ out[i].create_time = feed[i].create_time

C5_Witness ==
    \E r \in Reqs :
        /\ handler[r] = "scrape_user_videos"
        /\ Succeeded(r)
        /\ Len(response[r][1].videos) = 2
        /\ response[r][1].videos[1].create_time = ClockNow - MaxDays * SecondsPerDay - 1
        /\ response[r][1].videos[2].create_time = ClockNow

\* The request's hashtag with one leading '#' removed, otherwise unchanged.
WithoutLeadingHash(h) == IF h # << >> /\ Head(h) = "#" THEN Tail(h) ELSE h

\* C6: the name get_hashtag_trends passes to the hashtag-videos fetch and echoes
\* in the response is the request's hashtag with a leading '#' stripped and
\* otherwise unchanged.
C6_OnlyLeadingHashStripped ==
    \A r \in Reqs :
        handler[r] = "get_hashtag_trends" =>
            LET want == WithoutLeadingHash(request[r][1].hashtag)
            IN  /\ sessions[api[r]].calls[1].op = "hashtag.videos"
                /\ sessions[api[r]].calls[1].arg = want
                /\ Succeeded(r) => response[r][1].hashtag = want

\* C7: every video of a successful POST /scrape/user response has neither a
\* create_date nor a hashtags key; every video of a successful trend response
\* has both, create_date being the ISO date of the record's creation timestamp.
C7_FieldPresencePerEndpoint ==
    \A r \in Reqs :
        Succeeded(r) =>
            LET out == response[r][1].videos
            IN  \A j \in 1 .. Len(out) :
                    IF handler[r] = "scrape_user_videos"
                    THEN /\ "create_date" \notin DOMAIN out[j]
                         /\ "hashtags" \notin DOMAIN out[j]
                    ELSE /\ "create_date" \in DOMAIN out[j]
                         /\ "hashtags" \in DOMAIN out[j]
                         /\ out[j].create_date =
                                isoformat(fromtimestamp(tz, out[j].create_time))

C7_Witness ==
    \E r \in Reqs :
        /\ handler[r] \in TrendHandlers
        /\ Succeeded(r)
        /\ tz = "Europe/Belgrade"
        /\ Len(response[r][1].videos) >= 1
        /\ response[r][1].videos[1].create_time = ClockNow
        /\ response[r][1].videos[1].create_date =
               [year |-> 2023, month |-> 10, day |-> 29,
                hour |-> 14, minute |-> 0, second |-> 0]
        /\ response[r][1].videos[1].hashtags = <<"tag">>

\* C8 as stated: a session has proxy settings exactly when its request has
\* use_proxy true and a proxy value (anything but null).
C8_ProxyIffUseProxyAndProvided ==
    \A sid \in 1 .. Len(sessions) :
        LET req == request[sessions[sid].constructed_by][1]
        IN  ("proxies" \in DOMAIN sessions[sid].options)
                <=> (req.use_proxy /\ req.proxy # None)

\* C8 as amended: a session has proxy settings exactly when its request has
\* use_proxy true and a proxy that is a non-empty string, and the settings
\* route http and https through that proxy.
C8_ProxyIffUseProxyAndNonEmpty ==
    \A sid \in 1 .. Len(sessions) :
        LET req == request[sessions[sid].constructed_by][1]
            opt == sessions[sid].options
        IN  /\ ("proxies" \in DOMAIN opt)
                <=> (req.use_proxy /\ req.proxy # None /\ req.proxy # Some(""))
            /\ "proxies" \in DOMAIN opt =>
                   opt.proxies = [http |-> req.proxy[1], https |-> req.proxy[1]]

C8_Witness ==
    \E sid \in 1 .. Len(sessions) :
        LET req == request[sessions[sid].constructed_by][1]
        IN  /\ req.use_proxy
            /\ req.proxy = None
            /\ "proxies" \notin DOMAIN sessions[sid].options
            /\ Len(sessions[sid].calls) >= 1

\* C9: within a request every fetch operation is invoked at most once, a failed
\* user-info fetch means the user-videos fetch is never invoked, and once a
\* request has failed it invokes no further fetch.
C9_NoRetry ==
    /\ [](\A r \in Reqs :
            /\ \A op \in FetchOps : Cardinality(CallsBy(r, {op})) <= 1
            /\ (handler[r] = "scrape_user_videos" /\ Failed(r) /\ user[r] = None)
                   => CallsBy(r, {"user.videos"}) = {})
    /\ [][\A r \in Reqs : Failed(r) => CallsBy(r, FetchOps)' = CallsBy(r, FetchOps)]_vars

C9_Witness ==
    \E r, q \in Reqs :
        /\ handler[r] = "scrape_user_videos"
        /\ Failed(r)
        /\ user[r] = None
        /\ e[r] = Some("upstream error")
        /\ q # r
        /\ pc[q] = "close"

\* C10: every request in flight has constructed exactly one session, its own;
\* every fetch and every close on a session is made by the request that
\* constructed it; and a request's answer is computed from its own request and
\* from what its own fetches returned.
C10_SessionsAreRequestLocal ==
    /\ \A r \in Reqs :
           pc[r] # "idle" =>
               /\ { sid \in 1 .. Len(sessions) : sessions[sid].constructed_by = r }
                      = {api[r]}
               /\ CallsBy(r, FetchOps \cup {"close"}) # {}
    /\ \A sid \in 1 .. Len(sessions) :
           \A i \in 1 .. Len(sessions[sid].calls) :
               sessions[sid].calls[i].by = sessions[sid].constructed_by
    /\ \A r \in Reqs :
           Succeeded(r) =>
               response[r][1].videos =
                   IF handler[r] = "scrape_user_videos"
                   THEN user_loop(fetched[r][1], << >>).videos
                   ELSE trend_loop(fetched[r][1], << >>,
                                   minus_timedelta(datetime_now(tz), request[r][1].days),
                                   tz).videos

C10_Witness ==
    \E r, q \in Reqs :
        /\ r # q
        /\ handler[r] = "get_country_trends"
        /\ handler[q] = "get_hashtag_trends"
        /\ api[r] < api[q]
        /\ Failed(q)
        /\ Succeeded(r)
        /\ Len(response[r][1].videos) = 1

=============================================================================
